---- MODULE Spec2Model ----
(***************************************************************************)
(* GL tiled textures of ol/source/GlTiledTexture:                          *)
(*   - GlTiledTextureGeoTiffTiles and its module-wide geotiffCache,        *)
(*   - GlTiledTextureGeoTiff (one GeoTIFF, tiles cut out by pixel window), *)
(*   - GlTiledTextureAbstract (the base class).                            *)
(* JavaScript runs one job at a time: every action below is one           *)
(* synchronous call or one promise reaction job.                           *)
(***************************************************************************)
EXTENDS Integers, Sequences, FiniteSets, TLC

VARIABLES
  geotiffCache,  \* the LRUCache: entries [key_, value_], oldest first
  promises,      \* state of every promise a geotiffFactory call returned
  factoryLog,    \* URLs the geotiffFactory was invoked with, in order
  tileCalls,     \* GlTiledTextureGeoTiffTiles.getTiledData calls, in order
  anyTile,       \* anyTile_ of each GlTiledTextureGeoTiffTiles instance
  fetchCalls,    \* GlTiledTextureGeoTiffTiles.getFetchFunctionDef calls
  tileDir,       \* file directory of the images of the tile set
  callLimit,     \* number of getTiledData calls the run goes up to
  gtEnv,         \* GlTiledTextureGeoTiff: the options and the GeoTIFF's image
  gtFields,      \* width_, height_, bbox_, bboxWidth_, bboxHeight_, emptyData_
  gtTiff,        \* the promise this.tiff_
  gtCalls,       \* GlTiledTextureGeoTiff.getTiledData calls
  gtFetch,       \* GlTiledTextureGeoTiff.getFetchFunctionDef calls
  absName,       \* GlTiledTextureAbstract: fetchFuncName_
  absCalls       \* GlTiledTextureAbstract: the calls made and what they returned

tilesVars == <<geotiffCache, promises, factoryLog, tileCalls, anyTile, fetchCalls,
               tileDir, callLimit>>
gtVars == <<gtEnv, gtFields, gtTiff, gtCalls, gtFetch>>
absVars == <<absName, absCalls>>
vars == <<tilesVars, gtVars, absVars>>

----------------------------------------------------------------------------
(* Bounds and inputs *)

HighWaterMark == 16
MaxCalls == 2
MaxColdCalls == 1
MaxFetchCalls == 2
ExtraUrls == 1
NumColdUrls == 1
MaxGtCalls == 1
MaxGtFetchCalls == 1
MaxAbsCalls == 3

Instances == {1, 2}
Urls == 1 .. (HighWaterMark + ExtraUrls)
ColdUrls == 1 .. NumColdUrls
Bits == {8, 16, 32}
Formats == {1, 2, 3}
UniformNames == {"uTexture0", "uTexture1"}
TileUniformNames == {"uTexture0"}
WarmSizes == {0, HighWaterMark - 1, HighWaterMark}

\* options of instance i: fetchFuncName and the zero-indexed sample
FetchFuncName(i) == IF i = 1 THEN "getTCR" ELSE "getTCG"
Sample(i) == i - 1
NumSamples == Cardinality(Instances)

Dir(b, f) == [BitsPerSample |-> [s \in 1 .. NumSamples |-> b],
              SampleFormat |-> [s \in 1 .. NumSamples |-> f]]
TileDirs == {Dir(8, 1), Dir(16, 2), Dir(32, 3)}

----------------------------------------------------------------------------
(* ol/structs/LRUCache: a doubly linked list of entries, oldest to newest *)

LRUKeys(c) == {c[n].key_ : n \in 1 .. Len(c)}
LRUContainsKey(c, k) == k \in LRUKeys(c)
LRUIndex(c, k) == CHOOSE n \in 1 .. Len(c) : c[n].key_ = k
LRUPeek(c, k) == c[LRUIndex(c, k)].value_
\* get(key): returns the value and makes the entry the newest
LRUGet(c, k) ==
  LET n == LRUIndex(c, k)
  IN  SubSeq(c, 1, n - 1) \o SubSeq(c, n + 1, Len(c)) \o <<c[n]>>
\* set(key, value): a new newest entry
LRUSet(c, k, v) == Append(c, [key_ |-> k, value_ |-> v])
LRUCanExpireCache(c) == HighWaterMark > 0 /\ Len(c) > HighWaterMark
\* pop(): removes the oldest entry
LRUPop(c) == Tail(c)

----------------------------------------------------------------------------
(* GlTiledTextureGeoTiffTiles *)

\* faulty variants of the cache-then-fetch section: no look-up before the factory
\* call, no pop after set, and a hit that does not go through get
CacheThenFetch_NoLookup(c, url, fresh) ==
  LET c0 == SelectSeq(c, LAMBDA e : e.key_ # url)
      c1 == LRUSet(c0, url, fresh)
  IN  [cache |-> IF LRUCanExpireCache(c1) THEN LRUPop(c1) ELSE c1,
       instance |-> fresh, invoked |-> TRUE]
CacheThenFetch_NoPop(c, url, fresh) ==
  IF LRUContainsKey(c, url)
  THEN [cache |-> LRUGet(c, url), instance |-> LRUPeek(c, url), invoked |-> FALSE]
  ELSE [cache |-> LRUSet(c, url, fresh), instance |-> fresh, invoked |-> TRUE]
CacheThenFetch_NoRefresh(c, url, fresh) ==
  IF LRUContainsKey(c, url)
  THEN [cache |-> c, instance |-> LRUPeek(c, url), invoked |-> FALSE]
  ELSE LET c1 == LRUSet(c, url, fresh)
       IN  [cache |-> IF LRUCanExpireCache(c1) THEN LRUPop(c1) ELSE c1,
            instance |-> fresh, invoked |-> TRUE]

\* getTiledData, the cache-then-fetch section: the cache after it, the
\* promise the call continues from, and whether the factory was invoked.
\* fresh is the promise a factory invocation would return.
CacheThenFetch(c, url, fresh) ==
  IF LRUContainsKey(c, url)
  THEN [cache |-> LRUGet(c, url), instance |-> LRUPeek(c, url), invoked |-> FALSE]
  ELSE LET c1 == LRUSet(c, url, fresh)
       IN  [cache |-> IF LRUCanExpireCache(c1) THEN LRUPop(c1) ELSE c1,
            instance |-> fresh, invoked |-> TRUE]

GetTiledData(i, url) ==
  /\ Len(tileCalls) < callLimit
  /\ LET fresh == Len(promises) + 1
         r == CacheThenFetch(geotiffCache, url, fresh)
     IN  /\ geotiffCache' = r.cache
         /\ promises' = IF r.invoked THEN Append(promises, "pending") ELSE promises
         /\ factoryLog' = IF r.invoked THEN Append(factoryLog, url) ELSE factoryLog
         /\ tileCalls' = Append(tileCalls,
              [inst |-> i, url |-> url, instance |-> r.instance, stage |-> "tiff",
               img |-> 0])
  /\ UNCHANGED <<anyTile, fetchCalls, tileDir, callLimit,
                 gtVars, absVars>>

\* the promise of a geotiffFactory call settles (GeoTIFF.fromUrl)
FactorySettle(p, outcome) ==
  /\ p \in 1 .. Len(promises)
  /\ promises[p] = "pending"
  /\ promises' = [promises EXCEPT ![p] = outcome]
  /\ UNCHANGED <<geotiffCache, factoryLog, tileCalls, anyTile, fetchCalls,
                 tileDir, callLimit,
                 gtVars, absVars>>

\* instance.then((tiff) => tiff.getImage())
TiffThen(c) ==
  /\ c \in 1 .. Len(tileCalls)
  /\ tileCalls[c].stage = "tiff"
  /\ promises[tileCalls[c].instance] # "pending"
  /\ tileCalls' = [tileCalls EXCEPT ![c].stage =
        IF promises[tileCalls[c].instance] = "fulfilled" THEN "image" ELSE "rejected"]
  /\ UNCHANGED <<geotiffCache, promises, factoryLog, anyTile, fetchCalls,
                 tileDir, callLimit,
                 gtVars, absVars>>

\* faulty variant: the image callback does not resolve anyTile_
ResolveAnyTile_Never(a, img) == a

\* what resolveAnyTile_(img) does to anyTile_: only the first call counts
ResolveAnyTile(a, img) ==
  IF a.state = "pending" THEN [state |-> "fulfilled", img |-> img] ELSE a

\* .then((img) => { this.resolveAnyTile_(img); return img.readRasters(...) })
\* or getImage() rejects
ImageThen(c, ok) ==
  /\ c \in 1 .. Len(tileCalls)
  /\ tileCalls[c].stage = "image"
  /\ IF ok
     THEN /\ anyTile' = [anyTile EXCEPT ![tileCalls[c].inst] =
                           ResolveAnyTile(@, tileCalls[c].url)]
          /\ tileCalls' = [tileCalls EXCEPT ![c].stage = "rasters",
                                              ![c].img = tileCalls[c].url]
     ELSE /\ tileCalls' = [tileCalls EXCEPT ![c].stage = "rejected"]
          /\ UNCHANGED anyTile
  /\ UNCHANGED <<geotiffCache, promises, factoryLog, fetchCalls, tileDir, callLimit,
                 gtVars, absVars>>

\* .then((rasters) => rasters[0]), or readRasters rejects
RastersThen(c, ok) ==
  /\ c \in 1 .. Len(tileCalls)
  /\ tileCalls[c].stage = "rasters"
  /\ tileCalls' = [tileCalls EXCEPT ![c].stage = IF ok THEN "fulfilled" ELSE "rejected"]
  /\ UNCHANGED <<geotiffCache, promises, factoryLog, anyTile, fetchCalls,
                 tileDir, callLimit,
                 gtVars, absVars>>

\* the GLSL body chosen from (BitsPerSample, SampleFormat); "" when none is
FetchBody(bits, format) ==
  IF bits = 8 /\ format = 1 THEN "return texel.x * 256.;"
  ELSE IF bits = 8 /\ format = 2 THEN "return texel.x * 256.;"
  ELSE IF bits = 16 /\ format = 1 THEN "return texel.x * 256. + texel.a * 65536.0;"
  ELSE IF bits = 16 /\ format = 2 THEN "return texel.x * 256. + texel.a * 65536.0;"
  ELSE ""

\* `${bits}` in a template literal
NumberText(n) ==
  IF n = 8 THEN "8" ELSE IF n = 16 THEN "16" ELSE IF n = 32 THEN "32" ELSE "undefined"

\* array[index] of JavaScript, zero-indexed: 0 stands for undefined
At(array, index) == IF index + 1 \in DOMAIN array THEN array[index + 1] ELSE 0

\* the callback of getFetchFunctionDef: what its promise settles to
FetchFunctionDef(dir, sample, fetchFuncName, uniformName) ==
  LET bits == At(dir.BitsPerSample, sample)
      format == At(dir.SampleFormat, sample)
      body == FetchBody(bits, format)
  IN  IF body # ""
      THEN [state |-> "fulfilled",
            value |-> <<"float ", fetchFuncName, "(vec2 texelCoords) {",
                        "vec4 texel = texture2D(", uniformName, ", texelCoords.st);",
                        body, "}">>]
      ELSE [state |-> "rejected",
            value |-> <<"GeoTIFF pixel format not yet implemented (", NumberText(bits),
                        " bits, ",
                        IF format = 1 THEN "uint"
                        ELSE IF format = 2 THEN "int"
                        ELSE "unknown uint/int/float", ")">>]

\* getFetchFunctionDef(uniformName): returns this.anyTile_.then(...)
GetFetchFunctionDef(i, uniformName) ==
  /\ Len(fetchCalls) < MaxFetchCalls
  /\ fetchCalls' = Append(fetchCalls,
        [inst |-> i, uniformName |-> uniformName, state |-> "pending", value |-> <<>>,
         early |-> anyTile[i].state = "pending"])
  /\ UNCHANGED <<geotiffCache, promises, factoryLog, tileCalls, anyTile,
                 tileDir, callLimit,
                 gtVars, absVars>>

\* the reaction of getFetchFunctionDef's promise to anyTile_
FetchThen(f) ==
  /\ f \in 1 .. Len(fetchCalls)
  /\ fetchCalls[f].state = "pending"
  /\ anyTile[fetchCalls[f].inst].state = "fulfilled"
  /\ LET i == fetchCalls[f].inst
         r == FetchFunctionDef(tileDir, Sample(i), FetchFuncName(i),
                               fetchCalls[f].uniformName)
     IN  fetchCalls' = [fetchCalls EXCEPT ![f].state = r.state, ![f].value = r.value]
  /\ UNCHANGED <<geotiffCache, promises, factoryLog, tileCalls, anyTile,
                 tileDir, callLimit,
                 gtVars, absVars>>

----------------------------------------------------------------------------
(* GlTiledTextureGeoTiff *)

\* images: pixel size, bounding box [minX, minY, maxX, maxY], samples per
\* pixel and the file directory
Image(w, h, bbox, spp, b, f) ==
  [width |-> w, height |-> h, bbox |-> bbox, samplesPerPixel |-> spp,
   dir |-> [BitsPerSample |-> [s \in 1 .. spp |-> b],
            SampleFormat |-> [s \in 1 .. spp |-> f]]]

GtImages ==
  {Image(4, 2, <<0, 0, 8, 8>>, spp, b, f) : spp \in {1, 2}, b \in Bits, f \in Formats}
  \cup {Image(3, 5, <<-2, 1, 4, 3>>, spp, 16, 1) : spp \in {1, 2}}
  \cup {Image(5, 5, <<0, 0, 3, 3>>, spp, 16, 1) : spp \in {1, 2}}

GtEnvs ==
  [tiffIsPromise : BOOLEAN, sample : {0, 1}, fetchFuncName : {"getElevation"},
   img : GtImages]

\* tile extents [minX, minY, maxX, maxY]: inside, across an edge, outside,
\* empty, and around the whole image
TileExtents ==
  {<<0, 0, 2, 2>>, <<3, 3, 5, 5>>, <<-3, -3, 1, 1>>, <<2, 2, 9, 9>>,
   <<-5, -5, -3, -3>>, <<9, 9, 12, 12>>, <<1, 1, 1, 1>>, <<-4, -4, 12, 12>>}

NoFields ==
  [width_ |-> 0, height_ |-> 0, bbox_ |-> <<>>, bboxWidth_ |-> 0,
   bboxHeight_ |-> 0, emptyData_ |-> "undefined"]

\* constructor: this.tiff_ waits for the GeoTIFF when a promise was passed,
\* and for its getImage() otherwise
GtStart(env) ==
  /\ gtEnv = env
  /\ gtFields = NoFields
  /\ gtTiff = [state |-> IF env.tiffIsPromise THEN "awaitTiff" ELSE "awaitImage",
               reason |-> ""]
  /\ gtCalls = <<>>
  /\ gtFetch = <<>>

\* no GlTiledTextureGeoTiff in use
GtIdle ==
  GtStart([tiffIsPromise |-> FALSE, sample |-> 0, fetchFuncName |-> "getElevation",
           img |-> Image(4, 2, <<0, 0, 8, 8>>, 1, 16, 1)])

\* the promise of the GeoTIFF settles: loadedTiff.getImage() is called
GtTiffThen(ok) ==
  /\ gtTiff.state = "awaitTiff"
  /\ gtTiff' = IF ok THEN [state |-> "awaitImage", reason |-> ""]
               ELSE [state |-> "rejected", reason |-> "tiff"]
  /\ UNCHANGED <<tilesVars, absVars, gtEnv, gtFields, gtCalls, gtFetch>>

\* loadImage_(img): the fields it sets and what it returns
LoadImage(img, sample) ==
  LET fields == [width_ |-> img.width, height_ |-> img.height, bbox_ |-> img.bbox,
                 bboxWidth_ |-> img.bbox[3] - img.bbox[1],
                 bboxHeight_ |-> img.bbox[4] - img.bbox[2],
                 emptyData_ |-> "undefined"]
      bits == At(img.dir.BitsPerSample, sample)
      format == At(img.dir.SampleFormat, sample)
  IN  IF sample >= img.samplesPerPixel
      THEN [fields |-> fields, state |-> "rejected", reason |-> "Requested sample"]
      ELSE IF bits = 8 /\ format = 1
      THEN [fields |-> [fields EXCEPT !.emptyData_ = "Uint8Array"],
            state |-> "fulfilled", reason |-> ""]
      ELSE IF bits = 16 /\ format = 1
      THEN [fields |-> [fields EXCEPT !.emptyData_ = "Uint16Array"],
            state |-> "fulfilled", reason |-> ""]
      ELSE IF bits = 16 /\ format = 2
      THEN [fields |-> [fields EXCEPT !.emptyData_ = "Int16Array"],
            state |-> "fulfilled", reason |-> ""]
      ELSE [fields |-> fields, state |-> "rejected", reason |-> "FIXME"]

\* getImage() settles: .then(this.loadImage_.bind(this))
GtImageThen(ok) ==
  /\ gtTiff.state = "awaitImage"
  /\ IF ok
     THEN LET r == LoadImage(gtEnv.img, gtEnv.sample)
          IN  /\ gtFields' = r.fields
              /\ gtTiff' = [state |-> r.state, reason |-> r.reason]
     ELSE /\ gtTiff' = [state |-> "rejected", reason |-> "getImage"]
          /\ UNCHANGED gtFields
  /\ UNCHANGED <<tilesVars, absVars, gtEnv, gtCalls, gtFetch>>

\* Math.round of the quotient num / den, den > 0: halves go up
Round(num, den) == (2 * num + den) \div (2 * den)

\* faulty variant: the window without the flip of the y axis
PixelWindow_NoFlip(fields, tileExtent) ==
  LET w == fields.width_
      h == fields.height_
      bw == fields.bboxWidth_
      bh == fields.bboxHeight_
      x1 == (tileExtent[3] - fields.bbox_[1]) * w
      x2 == (tileExtent[1] - fields.bbox_[1]) * w
      y1 == (tileExtent[4] - fields.bbox_[2]) * h
      y2 == (tileExtent[2] - fields.bbox_[2]) * h
  IN  [outOfBounds |-> x1 < 0 \/ x2 > w * bw \/ y1 < 0 \/ y2 > h * bh,
       window |-> <<Round(x2, bw), Round(y2, bh), Round(x1, bw), Round(y1, bh)>>]

\* getTiledData: the pixel coordinates of the tile and the window read.
\* x1, x2 are the numerators over bboxWidth_, y1, y2 those over bboxHeight_
\* (the code computes the quotients in floating point).
PixelWindow(fields, tileExtent) ==
  LET w == fields.width_
      h == fields.height_
      bw == fields.bboxWidth_
      bh == fields.bboxHeight_
      x1 == (tileExtent[3] - fields.bbox_[1]) * w
      x2 == (tileExtent[1] - fields.bbox_[1]) * w
      y1 == (tileExtent[4] - fields.bbox_[2]) * h
      y2 == (tileExtent[2] - fields.bbox_[2]) * h
  IN  [outOfBounds |-> x1 < 0 \/ x2 > w * bw \/ y1 < 0 \/ y2 > h * bh,
       window |-> <<Round(x2, bw), Round(h * bh - y1, bh),
                    Round(x1, bw), Round(h * bh - y2, bh)>>]

\* getTiledData(...): returns this.tiff_.then(...)
GtGetTiledData(tileExtent) ==
  /\ Len(gtCalls) < MaxGtCalls
  /\ gtCalls' = Append(gtCalls,
        [tileExtent |-> tileExtent, state |-> "pending", window |-> <<>>, value |-> ""])
  /\ UNCHANGED <<tilesVars, absVars, gtEnv, gtFields, gtTiff, gtFetch>>

\* faulty variant: the reaction runs on a rejected tiff_ as well (and throws on the
\* undefined bbox_ when loadImage_ never ran)
TiledDataReaction_OnRejected(tiff, fields, call) ==
  IF fields = NoFields
  THEN [call EXCEPT !.state = "rejected"]
  ELSE LET pw == PixelWindow(fields, call.tileExtent)
       IN  IF pw.outOfBounds
           THEN [call EXCEPT !.state = "fulfilled", !.value = fields.emptyData_]
           ELSE [call EXCEPT !.state = "rasters", !.window = pw.window]

\* the reaction of a getTiledData promise to tiff_: the empty tile, or a
\* readRasters call with the window
TiledDataReaction(tiff, fields, call) ==
  IF tiff.state = "rejected"
  THEN [call EXCEPT !.state = "rejected"]
  ELSE LET pw == PixelWindow(fields, call.tileExtent)
       IN  IF pw.outOfBounds
           THEN [call EXCEPT !.state = "fulfilled", !.value = fields.emptyData_]
           ELSE [call EXCEPT !.state = "rasters", !.window = pw.window]

GtTiledDataThen(c) ==
  /\ c \in 1 .. Len(gtCalls)
  /\ gtCalls[c].state = "pending"
  /\ gtTiff.state \in {"fulfilled", "rejected"}
  /\ gtCalls' = [gtCalls EXCEPT ![c] = TiledDataReaction(gtTiff, gtFields, @)]
  /\ UNCHANGED <<tilesVars, absVars, gtEnv, gtFields, gtTiff, gtFetch>>

\* readRasters settles: .then((rasters) => rasters[0])
GtRastersThen(c, ok) ==
  /\ c \in 1 .. Len(gtCalls)
  /\ gtCalls[c].state = "rasters"
  /\ gtCalls' = [gtCalls EXCEPT ![c].state = IF ok THEN "fulfilled" ELSE "rejected",
                                ![c].value = IF ok THEN "rasters[0]" ELSE ""]
  /\ UNCHANGED <<tilesVars, absVars, gtEnv, gtFields, gtTiff, gtFetch>>

\* getFetchFunctionDef(uniformName): returns this.tiff_.then(...)
GtGetFetchFunctionDef(uniformName) ==
  /\ Len(gtFetch) < MaxGtFetchCalls
  /\ gtFetch' = Append(gtFetch,
        [uniformName |-> uniformName, state |-> "pending", value |-> <<>>])
  /\ UNCHANGED <<tilesVars, absVars, gtEnv, gtFields, gtTiff, gtCalls>>

GtFetchThen(f) ==
  /\ f \in 1 .. Len(gtFetch)
  /\ gtFetch[f].state = "pending"
  /\ gtTiff.state \in {"fulfilled", "rejected"}
  /\ LET r == IF gtTiff.state = "rejected"
              THEN [state |-> "rejected", value |-> <<gtTiff.reason>>]
              ELSE FetchFunctionDef(gtEnv.img.dir, gtEnv.sample, gtEnv.fetchFuncName,
                                    gtFetch[f].uniformName)
     IN  gtFetch' = [gtFetch EXCEPT ![f].state = r.state, ![f].value = r.value]
  /\ UNCHANGED <<tilesVars, absVars, gtEnv, gtFields, gtTiff, gtCalls>>

----------------------------------------------------------------------------
(* GlTiledTextureAbstract *)

\* no fetchFuncName passed to the constructor
Undefined == "<undefined>"
AbstractNames == {Undefined, "", "getData", "getElevation"}

AbsStart(name) ==
  /\ absName = name
  /\ absCalls = <<>>

\* no GlTiledTextureAbstract in use
AbsIdle == AbsStart("getData")

\* getTiledData(...): return Promise.reject()
AbstractTiledData(tileExtent) ==
  [kind |-> "promise", state |-> "rejected", value |-> <<>>]

\* faulty variant: no test of fetchFuncName_
AbstractFetchFunctionDef_NoTest(fetchFuncName, uniformName) ==
  [kind |-> "promise", state |-> "fulfilled",
   value |-> <<"float ", fetchFuncName, "(vec2 texelCoords) {",
               "return texture2D(", uniformName, ", texelCoords.st).x;", "}">>]

\* getFetchFunctionDef(uniformName): '' when fetchFuncName_ is falsy
AbstractFetchFunctionDef(fetchFuncName, uniformName) ==
  IF fetchFuncName \in {Undefined, ""}
  THEN [kind |-> "string", state |-> "", value |-> <<>>]
  ELSE [kind |-> "promise", state |-> "fulfilled",
        value |-> <<"float ", fetchFuncName, "(vec2 texelCoords) {",
                    "return texture2D(", uniformName, ", texelCoords.st).x;", "}">>]

AbsGetTiledData(tileExtent) ==
  /\ Len(absCalls) < MaxAbsCalls
  /\ absCalls' = Append(absCalls,
        [method |-> "getTiledData", arg |-> "", result |-> AbstractTiledData(tileExtent)])
  /\ UNCHANGED <<absName, tilesVars, gtVars>>

AbsGetFetchFunctionDef(uniformName) ==
  /\ Len(absCalls) < MaxAbsCalls
  /\ absCalls' = Append(absCalls,
        [method |-> "getFetchFunctionDef", arg |-> uniformName,
         result |-> AbstractFetchFunctionDef(absName, uniformName)])
  /\ UNCHANGED <<absName, tilesVars, gtVars>>

----------------------------------------------------------------------------
(* Specifications *)

\* after construction of the instances: nothing cached, nothing requested
TilesInit ==
  /\ geotiffCache = <<>>
  /\ promises = <<>>
  /\ factoryLog = <<>>
  /\ tileCalls = <<>>
  /\ anyTile = [i \in Instances |-> [state |-> "pending", img |-> 0]]
  /\ fetchCalls = <<>>
  /\ tileDir \in TileDirs
  /\ callLimit = MaxColdCalls

\* after instance 1 has loaded the tiles 1 .. k, each call completed
TilesInitWarm ==
  \E k \in WarmSizes :
    /\ geotiffCache = [j \in 1 .. k |-> [key_ |-> j, value_ |-> j]]
    /\ promises = [j \in 1 .. k |-> "fulfilled"]
    /\ factoryLog = [j \in 1 .. k |-> j]
    /\ tileCalls = [j \in 1 .. k |->
                      [inst |-> 1, url |-> j, instance |-> j, stage |-> "fulfilled",
                       img |-> j]]
    /\ anyTile = [i \in Instances |->
                    IF i = 1 /\ k > 0 THEN [state |-> "fulfilled", img |-> 1]
                    ELSE [state |-> "pending", img |-> 0]]
    /\ fetchCalls = <<>>
    /\ tileDir = Dir(16, 1)
    /\ callLimit = k + MaxCalls

\* no GlTiledTextureGeoTiffTiles in use
TilesIdle ==
  /\ geotiffCache = <<>>
  /\ promises = <<>>
  /\ factoryLog = <<>>
  /\ tileCalls = <<>>
  /\ anyTile = [i \in Instances |-> [state |-> "pending", img |-> 0]]
  /\ fetchCalls = <<>>
  /\ tileDir = Dir(16, 1)
  /\ callLimit = 0

Init == TilesInit /\ GtIdle /\ AbsIdle

Next ==
  \/ \E i \in Instances, u \in ColdUrls : GetTiledData(i, u)
  \/ \E p \in 1 .. Len(promises), o \in {"fulfilled", "rejected"} : FactorySettle(p, o)
  \/ \E c \in 1 .. Len(tileCalls) : TiffThen(c)
  \/ \E c \in 1 .. Len(tileCalls), ok \in BOOLEAN : ImageThen(c, ok)
  \/ \E c \in 1 .. Len(tileCalls), ok \in BOOLEAN : RastersThen(c, ok)
  \/ \E i \in Instances, n \in TileUniformNames : GetFetchFunctionDef(i, n)
  \/ \E f \in 1 .. Len(fetchCalls) : FetchThen(f)

\* GlTiledTextureGeoTiffTiles instances on a tile set, from construction
Spec == Init /\ [][Next]_vars

\* the job queue runs a promise reaction job once it is enabled
FairSpec == Spec /\ WF_vars(\E f \in 1 .. Len(fetchCalls) : FetchThen(f))

\* the cache-then-fetch section alone, over every tile URL, from a warm cache
InitCache == TilesInitWarm /\ GtIdle /\ AbsIdle

NextCache ==
  \/ \E i \in Instances, u \in Urls : GetTiledData(i, u)
  \/ \E p \in 1 .. Len(promises), o \in {"fulfilled", "rejected"} : FactorySettle(p, o)

SpecCache == InitCache /\ [][NextCache]_vars

\* one GlTiledTextureGeoTiff, from construction
InitGeoTiff == TilesIdle /\ (\E env \in GtEnvs : GtStart(env)) /\ AbsIdle

NextGeoTiff ==
  \/ \E ok \in BOOLEAN : GtTiffThen(ok)
  \/ \E ok \in BOOLEAN : GtImageThen(ok)
  \/ \E e \in TileExtents : GtGetTiledData(e)
  \/ \E c \in 1 .. Len(gtCalls) : GtTiledDataThen(c)
  \/ \E c \in 1 .. Len(gtCalls), ok \in BOOLEAN : GtRastersThen(c, ok)
  \/ \E n \in TileUniformNames : GtGetFetchFunctionDef(n)
  \/ \E f \in 1 .. Len(gtFetch) : GtFetchThen(f)

SpecGeoTiff == InitGeoTiff /\ [][NextGeoTiff]_vars

\* one GlTiledTextureAbstract, from construction
InitAbstract == TilesIdle /\ GtIdle /\ (\E n \in AbstractNames : AbsStart(n))

NextAbstract ==
  \/ \E e \in TileExtents : AbsGetTiledData(e)
  \/ \E n \in UniformNames : AbsGetFetchFunctionDef(n)

SpecAbstract == InitAbstract /\ [][NextAbstract]_vars

----------------------------------------------------------------------------
(* The GeoTIFF cache: claims C1, C2, C3, checked under SpecCache *)

Count(seq, x) == Cardinality({n \in 1 .. Len(seq) : seq[n] = x})
Called == Len(tileCalls') = Len(tileCalls) + 1
NewCall == tileCalls'[Len(tileCalls')]

\* C1: a getTiledData call, on any instance, whose URL is in the cache does
\* not invoke the geotiffFactory and continues from the cached promise, be
\* it pending or settled; no step invokes the factory for a URL that is in
\* the cache, so a URL sees one invocation for as long as it stays cached.
C1_FactoryOncePerCachedUrl ==
  [][/\ \A u \in Urls : LRUContainsKey(geotiffCache, u)
                          => Count(factoryLog', u) = Count(factoryLog, u)
     /\ (Called /\ LRUContainsKey(geotiffCache, NewCall.url))
          => /\ factoryLog' = factoryLog
             /\ promises' = promises
             /\ NewCall.instance = LRUPeek(geotiffCache, NewCall.url)]_vars

\* two instances share one pending promise of one factory invocation
C1_Witness ==
  \E a, b \in 1 .. Len(tileCalls) :
    /\ a < b
    /\ tileCalls[a].inst # tileCalls[b].inst
    /\ tileCalls[a].url = tileCalls[b].url
    /\ tileCalls[a].instance = tileCalls[b].instance
    /\ promises[tileCalls[b].instance] = "pending"
    /\ Count(factoryLog, tileCalls[b].url) = 1

\* C2: the cache never holds more than 16 entries, and no two entries have
\* the same URL as key.
C2_CacheCapacity ==
  /\ Len(geotiffCache) <= 16
  /\ \A m, n \in 1 .. Len(geotiffCache) :
       geotiffCache[m].key_ = geotiffCache[n].key_ => m = n

\* the cache is full after more distinct URLs were inserted than it holds
C2_Witness ==
  /\ Len(geotiffCache) = HighWaterMark
  /\ Cardinality({factoryLog[n] : n \in 1 .. Len(factoryLog)}) > HighWaterMark

\* the number of the last getTiledData call that asked for URL u
LastUse(u) ==
  LET uses == {n \in 1 .. Len(tileCalls) : tileCalls[n].url = u}
  IN  IF uses = {} THEN 0 ELSE CHOOSE n \in uses : \A m \in uses : m <= n

\* C3: a getTiledData call removes an entry only when it inserts a URL into
\* a full cache; it then removes exactly one entry, the one whose last use
\* (insertion or hit) is the oldest; the URL of the call is in the cache
\* after the call.
C3_EvictsLeastRecentlyUsed ==
  [][Called =>
       LET before == LRUKeys(geotiffCache)
           after == LRUKeys(geotiffCache')
           u == NewCall.url
       IN  /\ u \in after
           /\ after \subseteq before \cup {u}
           /\ IF u \notin before /\ Len(geotiffCache) >= HighWaterMark
              THEN \E v \in before :
                     /\ before \ after = {v}
                     /\ \A w \in before : LastUse(v) <= LastUse(w)
              ELSE before \subseteq after]_vars

\* URL 1, the oldest insertion, was hit and so outlived URL 2
C3_Witness ==
  /\ Len(geotiffCache) = HighWaterMark
  /\ LRUContainsKey(geotiffCache, 1)
  /\ ~LRUContainsKey(geotiffCache, 2)
  /\ Count(factoryLog, 1) = 1
  /\ Count(factoryLog, 2) = 1
  /\ Len(factoryLog) = HighWaterMark + 1

----------------------------------------------------------------------------
(* anyTile_: claim C5, checked under FairSpec *)

ImageObtained(i) ==
  \E c \in 1 .. Len(tileCalls) : tileCalls[c].inst = i /\ tileCalls[c].img # 0

C5_Safe ==
  \A f \in 1 .. Len(fetchCalls) :
    fetchCalls[f].state # "pending" => ImageObtained(fetchCalls[f].inst)

FetchReady(f) ==
  IF f <= Len(fetchCalls) THEN ImageObtained(fetchCalls[f].inst) ELSE FALSE
FetchSettled(f) ==
  IF f <= Len(fetchCalls) THEN fetchCalls[f].state # "pending" ELSE FALSE

C5_Live == \A f \in 1 .. MaxFetchCalls : FetchReady(f) ~> FetchSettled(f)

\* C5: a promise of getFetchFunctionDef is settled only once a getTiledData
\* call of its instance has obtained an image, and once one has, every
\* getFetchFunctionDef call of the instance, earlier or later, settles.
C5_FetchFollowsAnyTile == []C5_Safe /\ C5_Live

\* a call made before any image and one made after it have both settled,
\* while a call on the other instance is still pending
C5_Witness ==
  \E f, g \in 1 .. Len(fetchCalls) :
    /\ fetchCalls[f].inst = fetchCalls[g].inst
    /\ fetchCalls[f].early /\ ~fetchCalls[g].early
    /\ fetchCalls[f].state # "pending" /\ fetchCalls[g].state # "pending"

----------------------------------------------------------------------------
(* getFetchFunctionDef: claim C4, checked under SpecGeoTiff *)

\* the body the table of getFetchFunctionDef gives a pair; "" when none
TableBody(bits, format) ==
  IF bits = 8 /\ format \in {1, 2} THEN "return texel.x * 256.;"
  ELSE IF bits = 16 /\ format \in {1, 2}
  THEN "return texel.x * 256. + texel.a * 65536.0;"
  ELSE ""

\* a settled getFetchFunctionDef call is as the table says
AsTable(call, dir, sample, fetchFuncName) ==
  call.state # "pending" =>
    LET body == TableBody(At(dir.BitsPerSample, sample), At(dir.SampleFormat, sample))
    IN  IF body = ""
        THEN call.state = "rejected"
        ELSE /\ call.state = "fulfilled"
             /\ call.value[1] = "float "
             /\ call.value[2] = fetchFuncName
             /\ call.value[5] = call.uniformName
             /\ call.value[7] = body

C4_Tiles ==
  \A f \in 1 .. Len(fetchCalls) :
    AsTable(fetchCalls[f], tileDir, Sample(fetchCalls[f].inst),
            FetchFuncName(fetchCalls[f].inst))

\* C4: getFetchFunctionDef of both classes settles as the table of
\* (BitsPerSample, SampleFormat) says, once the image was obtained: (8,1),
\* (8,2), (16,1), (16,2) resolve to a function of the instance's name that
\* reads the uniform passed, every other pair rejects.
C4_FetchFunctionTable ==
  /\ C4_Tiles
  /\ gtTiff.reason \notin {"tiff", "getImage"} =>
       \A f \in 1 .. Len(gtFetch) :
         AsTable(gtFetch[f], gtEnv.img.dir, gtEnv.sample, gtEnv.fetchFuncName)

----------------------------------------------------------------------------
(* GlTiledTextureGeoTiff: claims C6 and C8, checked under SpecGeoTiff *)

SampleOutOfRange == gtEnv.sample >= gtEnv.img.samplesPerPixel

\* C6: with the sample not less than the samples per pixel, loadImage_
\* rejects tiff_ for that reason, every getTiledData and getFetchFunctionDef
\* promise stays pending until it is rejected, and no window is ever read.
C6_SampleOutOfRangeRejects ==
  SampleOutOfRange =>
    /\ gtTiff.state # "fulfilled"
    /\ gtFields # NoFields =>
         gtTiff.state = "rejected" /\ gtTiff.reason = "Requested sample"
    /\ \A c \in 1 .. Len(gtCalls) :
         gtCalls[c].state \in {"pending", "rejected"} /\ gtCalls[c].window = <<>>
    /\ \A f \in 1 .. Len(gtFetch) : gtFetch[f].state \in {"pending", "rejected"}

C6_Witness ==
  /\ SampleOutOfRange
  /\ gtTiff.reason = "Requested sample"
  /\ \E c \in 1 .. Len(gtCalls) : gtCalls[c].state = "rejected"
  /\ \E f \in 1 .. Len(gtFetch) : gtFetch[f].state = "rejected"

\* n is an integer nearest to num / den
Nearest(n, num, den) == -den <= 2 * (n * den - num) /\ 2 * (n * den - num) <= den

\* the tile extent shares no point with the bounding box
OffImage(e, bbox) ==
  e[3] < bbox[1] \/ e[1] > bbox[3] \/ e[4] < bbox[2] \/ e[2] > bbox[4]

\* the window of a call is the tile extent scaled to pixels, y flipped
Scaled(call) ==
  LET e == call.tileExtent
      win == call.window
      w == gtEnv.img.width
      h == gtEnv.img.height
      bbox == gtEnv.img.bbox
      bw == bbox[3] - bbox[1]
      bh == bbox[4] - bbox[2]
  IN  /\ Nearest(win[1], (e[1] - bbox[1]) * w, bw)
      /\ Nearest(win[3], (e[3] - bbox[1]) * w, bw)
      /\ Nearest(win[2], h * bh - (e[4] - bbox[2]) * h, bh)
      /\ Nearest(win[4], h * bh - (e[2] - bbox[2]) * h, bh)
      /\ win[1] <= win[3]
      /\ win[2] <= win[4]

Within(win) ==
  /\ 0 <= win[1] /\ win[3] <= gtEnv.img.width
  /\ 0 <= win[2] /\ win[4] <= gtEnv.img.height

Overlaps(win) ==
  /\ win[1] <= gtEnv.img.width /\ win[3] >= 0
  /\ win[2] <= gtEnv.img.height /\ win[4] >= 0

Inside(e, bbox) ==
  bbox[1] <= e[1] /\ e[3] <= bbox[3] /\ bbox[2] <= e[2] /\ e[4] <= bbox[4]

\* the calls that reacted to a loaded image
Reacted(c) == gtTiff.state = "fulfilled" /\ gtCalls[c].state # "pending"

\* C8 as stated: the window of every tile that is not out of bounds is the
\* scaled, y-flipped, rounded extent, ordered, and within the image.
C8_WindowWithinImage ==
  \A c \in 1 .. Len(gtCalls) :
    Reacted(c) /\ gtCalls[c].window # <<>> =>
      Scaled(gtCalls[c]) /\ Within(gtCalls[c].window)

\* C8, amended: a window is read exactly for the tiles that share a point
\* with the bounding box; it is the scaled, y-flipped, rounded extent, and
\* ordered; it overlaps the image, and is within it when the tile extent is
\* inside the bounding box.
C8_WindowOverlapsImage ==
  \A c \in 1 .. Len(gtCalls) :
    Reacted(c) =>
      /\ gtCalls[c].window = <<>> <=> OffImage(gtCalls[c].tileExtent, gtEnv.img.bbox)
      /\ gtCalls[c].window # <<>> =>
           /\ Scaled(gtCalls[c])
           /\ Overlaps(gtCalls[c].window)
           /\ Inside(gtCalls[c].tileExtent, gtEnv.img.bbox)
                => Within(gtCalls[c].window)

\* a window was read that starts left of the image and ends below it
C8_Witness ==
  \E c \in 1 .. Len(gtCalls) :
    /\ Reacted(c)
    /\ gtCalls[c].window # <<>>
    /\ gtCalls[c].window[1] < 0
    /\ gtCalls[c].window[4] > gtEnv.img.height

----------------------------------------------------------------------------
(* GlTiledTextureAbstract: claim C7, checked under SpecAbstract *)

\* C7: getTiledData returns a rejected promise; getFetchFunctionDef returns
\* the empty string when fetchFuncName_ is undefined or empty, and otherwise
\* a resolved promise of a function of that name returning the x component
\* of the texel read from the uniform passed.
C7_AbstractDefaults ==
  \A c \in 1 .. Len(absCalls) :
    LET r == absCalls[c].result
    IN  IF absCalls[c].method = "getTiledData"
        THEN r.kind = "promise" /\ r.state = "rejected"
        ELSE IF absName \in {Undefined, ""}
        THEN r.kind = "string" /\ r.value = <<>>
        ELSE /\ r.kind = "promise" /\ r.state = "fulfilled"
             /\ r.value[1] = "float "
             /\ r.value[2] = absName
             /\ r.value[4] = "return texture2D("
             /\ r.value[5] = absCalls[c].arg
             /\ r.value[6] = ", texelCoords.st).x;"

C7_Witness ==
  /\ \E c \in 1 .. Len(absCalls) : absCalls[c].method = "getTiledData"
  /\ \E c \in 1 .. Len(absCalls) :
       absCalls[c].method = "getFetchFunctionDef" /\ absCalls[c].result.kind = "promise"

====
